---- MODULE Spec2Model ----
(***************************************************************************)
(* A model of blpapiComp.py: the synchronous client BLP2 (bdp, bdh, bsrch) *)
(* and the observer client BLPTS (fillRequest, get, register, unregister,  *)
(* unregisterAll, updateObservers), each over one vendor session.          *)
(*                                                                         *)
(* The vendor session is the environment: sendRequest hands out a          *)
(* correlation id and leaves the request pending, the service answers a    *)
(* pending request with PARTIAL_RESPONSE events and one final RESPONSE     *)
(* event, status events arrive unasked, and nextEvent takes the head of    *)
(* the one event queue of the session, whoever calls it.                   *)
(***************************************************************************)
EXTENDS Integers, Sequences, FiniteSets, TLC

(* ------------------------------ bounds -------------------------------- *)

\* events the service delivers in a run besides the final RESPONSE of each
\* request: PARTIAL_RESPONSE events and status events
MaxExtra == 1
\* calls of the client's operations that are started in a run
MaxCalls == 2

Threads == {1, 2}

(* --------------------------- vendor messages -------------------------- *)

RESPONSE == "RESPONSE"
PARTIAL_RESPONSE == "PARTIAL_RESPONSE"
OTHER_EVENT == "SESSION_STATUS"

\* The message of an event, as far as the parsers look into it: kind "ref"
\* has securityData as an array of entries [security, fd], kind "hist" has
\* securityData as one element with a security and dated rows, kind "grid"
\* has DataRecords, kind "err" has a responseError and no securityData.
Body(kind, sd, sec, rows, recs) ==
    [kind |-> kind, sd |-> sd, sec |-> sec, rows |-> rows, recs |-> recs]

RefBody(sd) == Body("ref", sd, "", <<>>, <<>>)
HistBody(sec, rows) == Body("hist", <<>>, sec, rows, <<>>)
GridBody(recs) == Body("grid", <<>>, "", <<>>, recs)
ErrBody == Body("err", <<>>, "", <<>>, <<>>)
StatusBody == Body("status", <<>>, "", <<>>, <<>>)

Entry(security, fd) == [security |-> security, fd |-> fd]
Row(date, vals) == [date |-> date, vals |-> vals]

RefBodies ==
    { RefBody(<<Entry("s1", << <<"f1", "1.5">>, <<"f2", "2.5">> >>)>>),
      RefBody(<<Entry("s1", << <<"f1", "#N/A">> >>)>>),
      RefBody(<<Entry("s2", <<>>), Entry("s1", <<>>)>>) }

HistBodies ==
    { HistBody("s1", <<Row("d1", << <<"f1", "1.5">>, <<"f2", "2.5">> >>),
                       Row("d2", << <<"f1", "3.5">>, <<"f2", "4.5">> >>)>>),
      HistBody("s1", <<Row("d1", << <<"f1", "1.5">> >>)>>),
      HistBody("s2", <<>>) }

GridBodies ==
    { GridBody(<< <<"a", "b">>, <<"c">> >>),
      GridBody(<<>>) }

\* what the service may answer to a request of the given type
BodiesFor(type) ==
    CASE type = "ReferenceDataRequest" -> RefBodies
      [] type = "HistoricalDataRequest" -> HistBodies
      [] OTHER -> GridBodies

Event(type, cid, body) == [type |-> type, cid |-> cid, body |-> body]
NoEvent == Event("", 0, StatusBody)

\* a request object, as far as the code sets it
Request(type, securities, fields, extra) ==
    [type |-> type, securities |-> securities, fields |-> fields, extra |-> extra]
NoRequest == Request("", <<>>, <<>>, <<>>)

(* ------------------------------ results ------------------------------- *)

\* what a parser gives: exc is "" and val the value, or exc names the
\* exception raised
Value(tag, str, index, cols, cells) ==
    [tag |-> tag, str |-> str, index |-> index, cols |-> cols, cells |-> cells]
NoValue == Value("", "", <<>>, <<>>, <<>>)
Str(s) == Value("str", s, <<>>, <<>>, <<>>)
Table(index, cols, cells) == Value("table", "", index, cols, cells)
List(cells) == Value("list", "", <<>>, <<>>, cells)
Ok(v) == [exc |-> "", val |-> v]
Raise(e) == [exc |-> e, val |-> NoValue]

\* the value of element name in a sequence of <<name, value>> pairs, if any
HasElement(pairs, name) == \E n \in 1..Len(pairs) : pairs[n][1] = name
GetElement(pairs, name) ==
    pairs[CHOOSE n \in 1..Len(pairs) : pairs[n][1] = name][2]

\* a Python argument that the code tests with type(x) == str
PyStr(s) == [t |-> "str", s |-> s, l |-> <<>>]
PyList(l) == [t |-> "list", s |-> "", l |-> l]
PyBool(b) == [t |-> "bool", b |-> b]
\* the truth value Python gives an argument in a condition
Truthy(x) ==
    CASE x.t = "bool" -> x.b
      [] x.t = "str" -> x.s # ""
      [] OTHER -> x.l # <<>>
\* if type(x) == str: x = [x]
AsList(x) == IF x.t = "str" THEN <<x.s>> ELSE x.l

RECURSIVE Flatten(_)
Flatten(ss) == IF ss = <<>> THEN <<>> ELSE Head(ss) \o Flatten(Tail(ss))

(* ------------------------- BLP2: the parsers -------------------------- *)

PLACEHOLDER == "Error with api data field, i.g PX_LAST"

\* line 65: the chain of lookups into the first message of the event
BdpLookup(event, strData) ==
    LET b == event.body IN
    IF b.kind # "ref" THEN Raise("NotFoundException")
    ELSE IF Len(b.sd) = 0 THEN Raise("IndexOutOfRangeException")
    ELSE IF ~HasElement(b.sd[1].fd, strData) THEN Raise("NotFoundException")
    ELSE Ok(Str(GetElement(b.sd[1].fd, strData)))

\* the lookup without the try: its exception leaves the call
BdpUncaught(event, strData) ==
    LET r == BdpLookup(event, strData) IN
    IF r.exc = "" /\ r.val.str = "#N/A" THEN Ok(Str("None")) ELSE r

\* lines 64-71: try the lookup, '#N/A' becomes 'None', any exception becomes
\* the placeholder
BdpOutput(event, strData) ==
    LET r == BdpLookup(event, strData) IN
    IF r.exc # "" THEN Ok(Str(PLACEHOLDER))
    ELSE IF r.val.str = "#N/A" THEN Ok(Str("None"))
    ELSE r

\* bdh that gives the first row for singleFrame
BdhOutputFirst(event, strData, singleFrame) ==
    LET b == event.body
        cols == AsList(strData)
        n == Len(b.rows)
        missing == \E i \in 1..n, c \in 1..Len(cols) : ~HasElement(b.rows[i].vals, cols[c])
        cells == [i \in 1..n |-> [c \in 1..Len(cols) |-> GetElement(b.rows[i].vals, cols[c])]]
        index == [i \in 1..n |-> b.rows[i].date]
    IN
    IF b.kind # "hist" THEN Raise("NotFoundException")
    ELSE IF missing THEN Raise("NotFoundException")
    ELSE IF singleFrame
         THEN IF n = 0 THEN Raise("IndexError") ELSE Ok(List(cells[1]))
         ELSE Ok(Table(index, cols, cells))

\* lines 93-110: one row per dated entry, one column per field
BdhOutput(event, strData, singleFrame) ==
    LET b == event.body
        cols == AsList(strData)
        n == Len(b.rows)
        missing == \E i \in 1..n, c \in 1..Len(cols) : ~HasElement(b.rows[i].vals, cols[c])
        cell(v) == IF v = "#N/A History" THEN "nan" ELSE v
        cells == [i \in 1..n |-> [c \in 1..Len(cols) |-> cell(GetElement(b.rows[i].vals, cols[c]))]]
        index == [i \in 1..n |-> b.rows[i].date]
    IN
    IF b.kind # "hist" THEN Raise("NotFoundException")
    ELSE IF missing THEN Raise("NotFoundException")
    ELSE IF singleFrame
         THEN IF n = 0 THEN Raise("IndexError") ELSE Ok(List(cells[n]))
         ELSE Ok(Table(index, cols, cells))

\* lines 126-132: every StringValue of every DataFields of every DataRecords
BsrchOutput(event) ==
    LET b == event.body IN
    IF b.kind # "grid" THEN Raise("NotFoundException")
    ELSE Ok(List(Flatten(b.recs)))

(* ------------------------ BLPTS: the pure parts ----------------------- *)

\* len(x) > 0
PyNonEmpty(x) == IF x.t = "str" THEN x.s # "" ELSE x.l # <<>>

Args(securities, fields, kwargs) ==
    [securities |-> securities, fields |-> fields, kwargs |-> kwargs]
NoArgs == Args(PyList(<<>>), PyList(<<>>), {})

HistKwargs == {"startDate", "endDate"}

\* lines 164-169: the attributes before any request is filled
NewSelf(kwargs) ==
    [request |-> NoRequest, kwargs |-> kwargs, securities |-> <<>>, fields |-> <<>>,
     output |-> NoValue, requestID |-> 0, observers |-> <<>>]

\* a frame of NaN with the given labels
EmptyFrame(index, cols) ==
    Table(index, cols, [r \in 1..Len(index) |-> [c \in 1..Len(cols) |-> "nan"]])

\* fillRequest that always creates a ReferenceDataRequest
FillRequestRef(me, securities, fields, kwargs) ==
    [exc |-> "",
     self |-> [me EXCEPT !.request = Request("ReferenceDataRequest", AsList(securities),
                                              AsList(fields), <<>>),
                         !.output = EmptyFrame(AsList(securities), AsList(fields)),
                         !.securities = AsList(securities),
                         !.fields = AsList(fields)]]

\* lines 184-220: the request is created and filled; a keyword that is
\* looked up and not given raises KeyError after the request was created
FillRequest(me, securities, fields, kwargs) ==
    LET secs == AsList(securities)
        flds == AsList(fields) IN
    IF "startDate" \in kwargs
    THEN IF "endDate" \notin kwargs
         THEN [exc |-> "KeyError",
               self |-> [me EXCEPT !.request = Request("HistoricalDataRequest", <<>>, <<>>, <<>>)]]
         ELSE [exc |-> "",
               self |-> [me EXCEPT
                   !.request = Request("HistoricalDataRequest", secs, flds,
                       << <<"startDate", "20140101">>, <<"endDate", "20150514">>,
                          <<"periodicitySelection",
                            IF "periodicity" \in kwargs THEN "WEEKLY" ELSE "DAILY">> >>),
                   !.securities = secs,
                   !.fields = flds]]
    ELSE IF "strOverrideField" \in kwargs /\ "strOverrideValue" \notin kwargs
         THEN [exc |-> "KeyError",
               self |-> [me EXCEPT !.request = Request("ReferenceDataRequest", <<>>, <<>>, <<>>),
                                   !.output = EmptyFrame(secs, flds)]]
         ELSE [exc |-> "",
               self |-> [me EXCEPT
                   !.request = Request("ReferenceDataRequest", secs, flds,
                       IF "strOverrideField" \in kwargs
                       THEN << <<"fieldId", "PX_BID">>, <<"value", "200">> >> ELSE <<>>),
                   !.output = EmptyFrame(secs, flds),
                   !.securities = secs,
                   !.fields = flds]]

\* lines 157-173
Constructor(a) ==
    IF PyNonEmpty(a.securities) /\ PyNonEmpty(a.fields)
    THEN FillRequest(NewSelf(a.kwargs), a.securities, a.fields, a.kwargs)
    ELSE [exc |-> "", self |-> NewSelf(a.kwargs)]

\* line 236: the events whose messages get parses
IsData(event) == event.type \in {RESPONSE, PARTIAL_RESPONSE}

\* line 237: numValues of securityData: the entries of a reference response,
\* 1 for the single element of a historical response
ResponseSize(event) ==
    CASE event.body.kind = "ref" -> [exc |-> "", n |-> Len(event.body.sd)]
      [] event.body.kind = "hist" -> [exc |-> "", n |-> 1]
      [] OTHER -> [exc |-> "NotFoundException", n |-> 0]

\* lines 243-249: the security and the dated rows of a historical response
HistHead(event) ==
    IF event.body.kind = "hist"
    THEN [exc |-> "", security |-> event.body.sec, rows |-> event.body.rows]
    ELSE [exc |-> "NotFoundException", security |-> "", rows |-> <<>>]

Dates(rows) == [r \in 1..Len(rows) |-> rows[r].date]

\* lines 252-257: the values of one field down the rows, NaN where absent
HistColumn(rows, field) ==
    [r \in 1..Len(rows) |->
        IF HasElement(rows[r].vals, field) THEN GetElement(rows[r].vals, field) ELSE "nan"]

Position(seq, x) == IF \E n \in 1..Len(seq) : seq[n] = x
                    THEN CHOOSE n \in 1..Len(seq) : seq[n] = x ELSE 0

\* line 259: outDF[field] = data
SetColumn(df, field, data) ==
    LET c == Position(df.cols, field) IN
    IF c = 0
    THEN [df EXCEPT !.cols = Append(@, field),
                    !.cells = [r \in 1..Len(df.index) |-> Append(df.cells[r], data[r])]]
    ELSE [df EXCEPT !.cells = [r \in 1..Len(df.index) |-> [df.cells[r] EXCEPT ![c] = data[r]]]]

\* lines 266-268: entry i of a reference response, its security and the
\* elements of its field data
RefHead(event, i) ==
    IF event.body.kind = "ref"
    THEN [security |-> event.body.sd[i + 1].security, fd |-> event.body.sd[i + 1].fd]
    ELSE [security |-> event.body.sec, fd |-> <<>>]

\* line 272: _dict_from_element is defined nowhere in the module: the call
\* raises NameError
DictFromElement(data) == Raise("NameError")

\* line 274: self.output.loc[security, field] = outData, a label that is
\* missing is added
SetCell(df, security, field, v) ==
    LET index == IF Position(df.index, security) = 0 THEN Append(df.index, security) ELSE df.index
        cols == IF Position(df.cols, field) = 0 THEN Append(df.cols, field) ELSE df.cols
        old(r, c) == IF r <= Len(df.index) /\ c <= Len(df.cols) THEN df.cells[r][c] ELSE "nan"
    IN Table(index, cols,
             [r \in 1..Len(index) |-> [c \in 1..Len(cols) |->
                 IF index[r] = security /\ cols[c] = field THEN v ELSE old(r, c)]])

\* line 277: self.output.loc[security]
RowOf(df, security) ==
    IF Position(df.index, security) = 0 THEN Raise("KeyError")
    ELSE Ok(Value("series", security, df.cols, <<>>, df.cells[Position(df.index, security)]))

Note(security, field, data) == [security |-> security, field |-> field, data |-> data]
NoNote == Note("", "", NoValue)

IdleGet ==
    [pc |-> "idle", op |-> "", args |-> NoArgs, event |-> NoEvent, responseSize |-> 0,
     i |-> 0, security |-> "", rows |-> <<>>, fd |-> <<>>, outDF |-> NoValue,
     fields |-> <<>>, f |-> 0, j |-> 0, note |-> NoNote, k |-> 0, ret |-> "", exc |-> ""]
\* the last call of register, unregister, unregisterAll or updateObservers
ListCall(op, observer) == [op |-> op, observer |-> observer]
NoListCall == ListCall("", "")
NoTsHistory ==
    [sends |-> 0, sentCid |-> 0, sentReq |-> NoRequest, built |-> NoRequest, deq |-> <<>>,
     procd |-> 0, notes |-> <<>>, finished |-> 0, called |-> <<>>, expect |-> <<>>,
     listCall |-> NoListCall]

(* ------------------------------- state -------------------------------- *)

VARIABLES
    queue,      \* the session's event queue, head first
    pending,    \* requests sent and not yet answered by their RESPONSE
    nextCid,    \* the correlation id the next sendRequest returns
    extras,     \* PARTIAL_RESPONSE and status events that have arrived
    calls,      \* calls started
    client,     \* the class of the object the run is about: BLP2 or BLPTS
    live,       \* the threads that use the object
    limit,      \* the calls the threads make in the run
    services,   \* BLP2: refDataSvc and refExrSvc
    blp2,       \* BLP2: each thread's call in progress
    blp2h,      \* BLP2 history: what each call dequeued and sent
    self,       \* BLPTS: the attributes of the instance
    ts,         \* BLPTS: each thread's call in progress
    tsh,        \* BLPTS history: what each call sent, dequeued and notified
    registry    \* BLPTS history: the observers in the order they registered

sessVars == <<queue, pending, nextCid, extras>>
blp2Vars == <<services, blp2, blp2h>>
tsVars == <<self, ts, tsh, registry>>
useVars == <<client, live, limit>>
vars == <<queue, pending, nextCid, extras, calls, client, live, limit, services,
          blp2, blp2h, self, ts, tsh, registry>>

IdleCall ==
    [pc |-> "idle", op |-> "", strData |-> PyStr(""), singleFrame |-> FALSE,
     periodicity |-> "",
     requestID |-> 0, event |-> NoEvent, output |-> NoValue, exc |-> ""]
NoHistory == [deq |-> <<>>, last |-> NoEvent, sends |-> 0, request |-> NoRequest]

\* lines 33-39
InitBLP2 ==
    /\ queue = <<>>
    /\ pending = {}
    /\ nextCid = 1
    /\ extras = 0
    /\ calls = 0
    /\ client = "BLP2"
    /\ live = Threads
    /\ limit = Cardinality(Threads)
    /\ services = [refDataSvc |-> "//BLP/refdata", refExrSvc |-> "//BLP/exrsvc"]
    /\ blp2 = [t \in Threads |-> IdleCall]
    /\ blp2h = [t \in Threads |-> NoHistory]
    /\ self = NewSelf({})
    /\ ts = [t \in Threads |-> IdleGet]
    /\ tsh = [t \in Threads |-> NoTsHistory]
    /\ registry = <<>>

(* ----------------------------- the session ---------------------------- *)

\* the service answers a pending request with a PARTIAL_RESPONSE event
Partial ==
    /\ extras < MaxExtra
    /\ extras' = extras + 1
    /\ \E p \in pending : \E body \in BodiesFor(p.type) :
           queue' = Append(queue, Event(PARTIAL_RESPONSE, p.cid, body))
    /\ UNCHANGED <<pending, nextCid, calls, useVars, blp2Vars, tsVars>>

\* the service ends a pending request with its RESPONSE event: the data, or
\* a responseError
Respond ==
    /\ \E p \in pending : \E body \in BodiesFor(p.type) \cup {ErrBody} :
           /\ queue' = Append(queue, Event(RESPONSE, p.cid, body))
           /\ pending' = pending \ {p}
    /\ UNCHANGED <<nextCid, extras, calls, useVars, blp2Vars, tsVars>>

\* an event of another type arrives
Status ==
    /\ extras < MaxExtra
    /\ extras' = extras + 1
    /\ queue' = Append(queue, Event(OTHER_EVENT, 0, StatusBody))
    /\ UNCHANGED <<pending, nextCid, calls, useVars, blp2Vars, tsVars>>

(* -------------------------- BLP2: operations -------------------------- *)

\* a loop that also leaves on a PARTIAL_RESPONSE
IsTerminalOrPartial(c, event) == event.type \in {RESPONSE, PARTIAL_RESPONSE}

\* a loop that leaves only on the RESPONSE of the call's own request
IsOwnResponse(c, event) == event.type = RESPONSE /\ event.cid = c.requestID

\* lines 62, 90, 124: the test that ends the polling loop of call c
IsTerminal(c, event) == event.type = RESPONSE

\* the request is built and sent (or sendRequest raises); the call is then
\* in its polling loop
Blp2Send(t, op, strData, singleFrame, periodicity, request) ==
    /\ client = "BLP2"
    /\ t \in live
    /\ blp2[t].pc = "idle"
    /\ \/ /\ pending' = pending \cup {[cid |-> nextCid, type |-> request.type]}
          /\ nextCid' = nextCid + 1
          /\ blp2' = [blp2 EXCEPT ![t] =
                 [IdleCall EXCEPT !.pc = "poll", !.op = op, !.strData = strData,
                                  !.singleFrame = singleFrame,
                                  !.periodicity = periodicity, !.requestID = nextCid]]
          /\ blp2h' = [blp2h EXCEPT ![t] = [NoHistory EXCEPT !.sends = 1, !.request = request]]
       \/ /\ blp2' = [blp2 EXCEPT ![t] =
                 [IdleCall EXCEPT !.pc = "raised", !.op = op, !.strData = strData,
                                  !.singleFrame = singleFrame,
                                  !.periodicity = periodicity, !.exc = "sendRequest"]]
          /\ blp2h' = [blp2h EXCEPT ![t] = NoHistory]
          /\ UNCHANGED <<pending, nextCid>>
    /\ UNCHANGED <<queue, extras, calls, useVars, services, tsVars>>

\* the field bdp is called with
BdpArgs == {"f1"}

\* lines 41-58
Bdp(t) ==
    \E strData \in BdpArgs :
        Blp2Send(t, "bdp", PyStr(strData), FALSE, "",
                 Request("ReferenceDataRequest", <<"s1">>, <<strData>>, <<>>))

\* the arguments bdh is called with
BdhArgs ==
    { [strData |-> PyStr("f1"), singleFrame |-> TRUE],
      [strData |-> PyList(<<"f1", "f2">>), singleFrame |-> FALSE] }

\* lines 74-85: the request bdh builds from its arguments
BdhRequest(strSecurity, strData, startdate, enddate, adjustmentSplit, periodicity) ==
    Request("HistoricalDataRequest", <<strSecurity>>, AsList(strData),
            << <<"startDate", startdate>>, <<"endDate", enddate>>,
               <<"adjustmentSplit", IF Truthy(adjustmentSplit) THEN "TRUE" ELSE "FALSE">>,
               <<"periodicitySelection", periodicity>> >>)

\* lines 73-86, called with the defaults for adjustmentSplit and periodicity
BdhCall(t, a) ==
    Blp2Send(t, "bdh", a.strData, a.singleFrame, "DAILY",
             BdhRequest("s1", a.strData, "20140101", "20140109", PyBool(FALSE), "DAILY"))

Bdh(t) == \E a \in BdhArgs : BdhCall(t, a)

\* lines 113-120
Bsrch(t) ==
    Blp2Send(t, "bsrch", PyStr(""), FALSE, "",
             Request("ExcelGetGridRequest", <<>>, <<>>, << <<"Domain", "fi:EX">> >>))

\* lines 60-63, 88-91, 122-125: one turn of the polling loop, nextEvent
\* gives the head of the queue
Blp2Take(t) ==
    /\ t \in live
    /\ blp2[t].pc = "poll"
    /\ queue # <<>>
    /\ queue' = Tail(queue)
    /\ blp2' = [blp2 EXCEPT ![t].event = Head(queue),
                            ![t].pc = IF IsTerminal(blp2[t], Head(queue)) THEN "parse" ELSE "poll"]
    /\ blp2h' = [blp2h EXCEPT ![t].deq = Append(@, Head(queue).type),
                              ![t].last = Head(queue)]
    /\ UNCHANGED <<pending, nextCid, extras, calls, useVars, services, tsVars>>

\* lines 61, 89, 123: nextEvent raises
Blp2NextEventRaises(t) ==
    /\ t \in live
    /\ blp2[t].pc = "poll"
    /\ blp2' = [blp2 EXCEPT ![t].pc = "raised", ![t].exc = "nextEvent"]
    /\ UNCHANGED <<sessVars, calls, useVars, services, blp2h, tsVars>>

\* what the operation makes of the event it left the loop with
Blp2Output(c) ==
    CASE c.op = "bdp" -> BdpOutput(c.event, c.strData.s)
      [] c.op \in {"bdh", "bdhOHLC"} -> BdhOutput(c.event, c.strData, c.singleFrame)
      [] OTHER -> BsrchOutput(c.event)

\* a parsing step that catches every exception and returns what it has
Blp2ParseCatching(t) ==
    /\ t \in live
    /\ blp2[t].pc = "parse"
    /\ blp2' = [blp2 EXCEPT ![t].pc = "done", ![t].output = Blp2Output(blp2[t]).val]
    /\ UNCHANGED <<sessVars, calls, useVars, services, blp2h, tsVars>>

\* lines 64-71, 93-110, 126-132: the result is returned, or the exception of
\* the parsing leaves the call
Blp2Parse(t) ==
    /\ t \in live
    /\ blp2[t].pc = "parse"
    /\ LET r == Blp2Output(blp2[t]) IN
       blp2' = [blp2 EXCEPT ![t].pc = IF r.exc = "" THEN "done" ELSE "raised",
                            ![t].output = r.val,
                            ![t].exc = r.exc]
    /\ UNCHANGED <<sessVars, calls, useVars, services, blp2h, tsVars>>

NextBLP2 ==
    \/ Partial
    \/ Respond
    \/ Status
    \/ \E t \in Threads :
        \/ Bdp(t)
        \/ Bdh(t)
        \/ Bsrch(t)
        \/ Blp2Take(t)
        \/ Blp2NextEventRaises(t)
        \/ Blp2Parse(t)

SpecBLP2 == InitBLP2 /\ [][NextBLP2]_vars

(* ------------------------ BLP2: the claims ---------------------------- *)

Last(seq) == seq[Len(seq)]
LeftLoop(c) ==
    \/ c.pc \in {"parse", "done"}
    \/ c.pc = "raised" /\ c.exc \notin {"sendRequest", "nextEvent"}

\* C1: a bdp, bdh or bsrch call that has left its polling loop has dequeued
\* exactly one RESPONSE event, as the last event it dequeued: everything it
\* dequeued before is of another type and is dropped, the event it parses is
\* that RESPONSE, its result is what the parser makes of that one event, and
\* a call still in the loop has dequeued no RESPONSE.
C1_ReturnsOnTheResponse ==
    \A t \in Threads :
        LET c == blp2[t]
            h == blp2h[t] IN
        /\ c.pc = "poll" => \A k \in 1..Len(h.deq) : h.deq[k] # RESPONSE
        /\ LeftLoop(c) =>
              /\ h.deq # <<>>
              /\ Last(h.deq) = RESPONSE
              /\ \A k \in 1..(Len(h.deq) - 1) : h.deq[k] # RESPONSE
              /\ c.event = h.last
              /\ c.event.type = RESPONSE
        /\ c.pc = "done" => c.output = Blp2Output([c EXCEPT !.event = h.last]).val

\* a call has returned after dropping a PARTIAL_RESPONSE
C1_Witness ==
    \E t \in Threads :
        /\ blp2[t].pc = "done"
        /\ blp2h[t].deq = <<PARTIAL_RESPONSE, RESPONSE>>

\* C3: the calls share the one queue and no call looks at the correlation id
\* of what it dequeues: whenever a call in its loop dequeues a RESPONSE, of
\* whichever request, it leaves the loop with that event.
C3_AnyResponseEndsTheLoop ==
    [][\A t \in Threads :
          (/\ blp2[t].pc = "poll"
           /\ blp2h'[t].deq # blp2h[t].deq
           /\ Head(queue).type = RESPONSE)
          => (blp2'[t].pc = "parse" /\ blp2'[t].event = Head(queue))]_vars

\* two calls are in flight and one has returned a result computed from the
\* RESPONSE that answers the request of the other
C3_Witness ==
    \E t, u \in Threads :
        /\ t # u
        /\ blp2[t].pc = "done"
        /\ blp2[u].pc = "poll"
        /\ blp2[t].event.cid = blp2[u].requestID
        /\ blp2[t].event.cid # blp2[t].requestID
        /\ blp2[t].output = Blp2Output(blp2[t]).val
        /\ blp2[t].output # NoValue

\* what bdp is to return for the RESPONSE event it left the loop with
BdpExpected(event, strData) ==
    LET r == BdpLookup(event, strData) IN
    IF r.exc # "" THEN PLACEHOLDER
    ELSE IF r.val.str = "#N/A" THEN "None" ELSE r.val.str

\* C5: a bdp call that has dequeued its RESPONSE never raises; it returns a
\* string: the field's value, 'None' for '#N/A', the placeholder when the
\* lookup raises; and the step that parses leaves the session and the
\* services as they are.
C5_BdpAlwaysReturnsAString ==
    /\ [](\A t \in Threads :
            blp2[t].op = "bdp" =>
                /\ ~(blp2[t].pc = "raised" /\ LeftLoop(blp2[t]))
                /\ blp2[t].pc = "done" =>
                      /\ blp2[t].output.tag = "str"
                      /\ blp2[t].output.str = BdpExpected(blp2h[t].last, blp2[t].strData.s))
    /\ [][\A t \in Threads :
            (blp2[t].op = "bdp" /\ blp2[t].pc = "parse" /\ blp2'[t].pc # "parse")
            => (blp2'[t].pc = "done" /\ UNCHANGED <<sessVars, services>>)]_vars

\* one bdp call has returned the placeholder and another 'None'
C5_Witness ==
    \E t, u \in Threads :
        /\ blp2[t].op = "bdp" /\ blp2[t].pc = "done"
        /\ blp2[t].output = Str(PLACEHOLDER)
        /\ blp2[u].op = "bdp" /\ blp2[u].pc = "done"
        /\ blp2[u].output = Str("None")

(* -------------------------- BLPTS: operations ------------------------- *)

Observers == {"o1", "o2"}

\* the arguments the constructor, fillRequest and get are called with
RefArgs == Args(PyStr("s1"), PyList(<<"f1", "f2">>), {})
HistArgs == Args(PyList(<<"s1", "s2">>), PyStr("f1"), HistKwargs)
BadArgs == Args(PyList(<<"s1">>), PyList(<<>>), {"startDate"})
InitArgs == {NoArgs, Args(PyList(<<>>), PyList(<<>>), HistKwargs), RefArgs, HistArgs}
FillArgs == {RefArgs, HistArgs, BadArgs}
GetArgs == {NoArgs} \cup FillArgs

\* the state after BLPTS(securities, fields, **kwargs), for the threads in
\* users to make n calls
InitBLPTS(users, n) ==
    /\ queue = <<>>
    /\ pending = {}
    /\ nextCid = 1
    /\ extras = 0
    /\ calls = 0
    /\ client = "BLPTS"
    /\ live = users
    /\ limit = n
    /\ services = [refDataSvc |-> "//BLP/refdata", refExrSvc |-> ""]
    /\ blp2 = [t \in Threads |-> IdleCall]
    /\ blp2h = [t \in Threads |-> NoHistory]
    /\ \E a \in InitArgs : Constructor(a).exc = "" /\ self = Constructor(a).self
    /\ ts = [t \in Threads |-> IdleGet]
    /\ tsh = [t \in Threads |-> NoTsHistory]
    /\ registry = <<>>

\* the state after BLPTS(securities, fields, **kwargs) with securities and
\* fields and register(o1), for the threads in users to make n calls of get
InitReady(users, n) ==
    /\ queue = <<>>
    /\ pending = {}
    /\ nextCid = 1
    /\ extras = 0
    /\ calls = 0
    /\ client = "BLPTS"
    /\ live = users
    /\ limit = n
    /\ services = [refDataSvc |-> "//BLP/refdata", refExrSvc |-> ""]
    /\ blp2 = [t \in Threads |-> IdleCall]
    /\ blp2h = [t \in Threads |-> NoHistory]
    /\ \E a \in {RefArgs, HistArgs} :
          self = [Constructor(a).self EXCEPT !.observers = <<"o1">>]
    /\ ts = [t \in Threads |-> IdleGet]
    /\ tsh = [t \in Threads |-> NoTsHistory]
    /\ registry = <<"o1">>

Callable(t) ==
    /\ client = "BLPTS"
    /\ t \in live
    /\ ts[t].pc \in {"idle", "done", "raised"}
    /\ calls < limit

\* a loop that ends on the first event with data
EndsOnData(event) == event.type \in {RESPONSE, PARTIAL_RESPONSE}

\* line 281: the test that ends the polling loop of get
GetIsTerminal(event) == event.type = RESPONSE

\* lines 222-230: get is called; new securities or fields fill a new request
Get(t) ==
    /\ Callable(t)
    /\ calls' = calls + 1
    /\ \E a \in GetArgs :
        ts' = [ts EXCEPT ![t] =
                 [IdleGet EXCEPT !.op = "get", !.args = a,
                                 !.pc = IF PyNonEmpty(a.securities) \/ PyNonEmpty(a.fields)
                                        THEN "fill1" ELSE "send"]]
    /\ tsh' = [tsh EXCEPT ![t] = NoTsHistory]
    /\ UNCHANGED <<sessVars, useVars, blp2Vars, self, registry>>

\* line 175: fillRequest is called by the user
CallFillRequest(t) ==
    /\ Callable(t)
    /\ calls' = calls + 1
    /\ \E a \in FillArgs :
        ts' = [ts EXCEPT ![t] = [IdleGet EXCEPT !.op = "fillRequest", !.args = a, !.pc = "fill1"]]
    /\ tsh' = [tsh EXCEPT ![t] = NoTsHistory]
    /\ UNCHANGED <<sessVars, useVars, blp2Vars, self, registry>>

\* line 182
FillKwargs(t) ==
    /\ t \in live
    /\ ts[t].pc = "fill1"
    /\ self' = [self EXCEPT !.kwargs = ts[t].args.kwargs]
    /\ ts' = [ts EXCEPT ![t].pc = "fill2"]
    /\ UNCHANGED <<sessVars, calls, useVars, blp2Vars, tsh, registry>>

\* lines 184-220
FillRest(t) ==
    /\ t \in live
    /\ ts[t].pc = "fill2"
    /\ LET a == ts[t].args
           r == FillRequest(self, a.securities, a.fields, a.kwargs) IN
       /\ self' = r.self
       /\ ts' = [ts EXCEPT ![t].pc = IF r.exc # "" THEN "raised"
                                     ELSE IF ts[t].op = "get" THEN "send" ELSE "done",
                           ![t].exc = r.exc]
       /\ tsh' = [tsh EXCEPT ![t].built = r.self.request]
    /\ UNCHANGED <<sessVars, calls, useVars, blp2Vars, registry>>

\* line 232: self.request is sent, if there is one and sendRequest does not
\* raise
SendRequest(t) ==
    /\ t \in live
    /\ ts[t].pc = "send"
    /\ \/ /\ self.request = NoRequest
          /\ ts' = [ts EXCEPT ![t].pc = "raised", ![t].exc = "AttributeError"]
          /\ UNCHANGED <<pending, nextCid, self, tsh>>
       \/ /\ self.request # NoRequest
          /\ pending' = pending \cup {[cid |-> nextCid, type |-> self.request.type]}
          /\ nextCid' = nextCid + 1
          /\ self' = [self EXCEPT !.requestID = nextCid]
          /\ ts' = [ts EXCEPT ![t].pc = "poll"]
          /\ tsh' = [tsh EXCEPT ![t].sends = @ + 1, ![t].sentCid = nextCid,
                                ![t].sentReq = self.request]
       \/ /\ self.request # NoRequest
          /\ ts' = [ts EXCEPT ![t].pc = "raised", ![t].exc = "sendRequest"]
          /\ UNCHANGED <<pending, nextCid, self, tsh>>
    /\ UNCHANGED <<queue, extras, calls, useVars, blp2Vars, registry>>

\* lines 235-237 and 281: nextEvent gives the head of the queue; an event
\* that is no response is passed over
Take(t) ==
    /\ t \in live
    /\ ts[t].pc = "poll"
    /\ queue # <<>>
    /\ queue' = Tail(queue)
    /\ LET e == Head(queue)
           r == ResponseSize(e) IN
       /\ ts' = [ts EXCEPT ![t].event = e,
                           ![t].responseSize = r.n,
                           ![t].i = 0,
                           ![t].pc = IF ~IsData(e) THEN "poll"
                                     ELSE IF r.exc # "" THEN "raised" ELSE "loop",
                           ![t].exc = IF IsData(e) THEN r.exc ELSE ""]
       /\ tsh' = [tsh EXCEPT ![t].deq = Append(@, e.type)]
    /\ UNCHANGED <<pending, nextCid, extras, calls, useVars, blp2Vars, self, registry>>

\* line 235: nextEvent raises
NextEventRaises(t) ==
    /\ t \in live
    /\ ts[t].pc = "poll"
    /\ ts' = [ts EXCEPT ![t].pc = "raised", ![t].exc = "nextEvent"]
    /\ UNCHANGED <<sessVars, calls, useVars, blp2Vars, self, tsh, registry>>

\* line 239 with 241-249 or 266-268: the next security of the event, read as
\* the keywords say; and lines 281-282 when the event has no more
ForSecurity(t) ==
    /\ t \in live
    /\ ts[t].pc = "loop"
    /\ LET c == ts[t] IN
       IF c.i >= c.responseSize
       THEN /\ ts' = [ts EXCEPT ![t].pc = IF GetIsTerminal(c.event) THEN "done" ELSE "poll"]
            /\ tsh' = [tsh EXCEPT ![t].procd = @ + 1]
       ELSE IF "startDate" \in self.kwargs
       THEN LET h == HistHead(c.event) IN
            /\ ts' = [ts EXCEPT ![t].pc = IF h.exc # "" THEN "raised" ELSE "hfield",
                                ![t].exc = h.exc,
                                ![t].security = h.security,
                                ![t].rows = h.rows,
                                ![t].outDF = EmptyFrame(Dates(h.rows), self.fields),
                                ![t].fields = self.fields,
                                ![t].f = 0]
            /\ UNCHANGED tsh
       ELSE LET h == RefHead(c.event, c.i) IN
            /\ ts' = [ts EXCEPT ![t].pc = "rfield",
                                ![t].security = h.security,
                                ![t].fd = h.fd,
                                ![t].j = 0]
            /\ UNCHANGED tsh
    /\ UNCHANGED <<sessVars, calls, useVars, blp2Vars, self, registry>>

\* updateObservers is entered with one notification
Dispatch(t, c, note, hist) ==
    /\ ts' = [ts EXCEPT ![t] = [c EXCEPT !.pc = "disp", !.note = note, !.k = 0]]
    /\ tsh' = [tsh EXCEPT ![t].notes = Append(@, [note |-> note, cid |-> c.event.cid,
                                                  hist |-> hist, ev |-> Len(tsh[t].deq)]),
                          ![t].called = <<>>,
                          ![t].expect = registry]

\* lines 251-262: one column is filled and notified, and after the last the
\* whole frame
HistField(t) ==
    /\ t \in live
    /\ ts[t].pc = "hfield"
    /\ LET c == ts[t] IN
       IF c.f < Len(c.fields)
       THEN LET field == c.fields[c.f + 1]
                df == SetColumn(c.outDF, field, HistColumn(c.rows, field)) IN
            Dispatch(t, [c EXCEPT !.outDF = df, !.f = c.f + 1, !.ret = "hfield"],
                     Note(c.security, field, df), TRUE)
       ELSE Dispatch(t, [c EXCEPT !.ret = "next"], Note(c.security, "ALL", c.outDF), TRUE)
    /\ UNCHANGED <<sessVars, calls, useVars, blp2Vars, self, registry>>

\* lines 269-279: one element of the field data is converted and notified,
\* and after the last the row of the security
RefField(t) ==
    /\ t \in live
    /\ ts[t].pc = "rfield"
    /\ LET c == ts[t]
           n_elmts == Len(c.fd) IN
       IF c.j < n_elmts
       THEN LET field == c.fd[c.j + 1][1]
                outData == DictFromElement(c.fd[c.j + 1]) IN
            IF outData.exc # ""
            THEN /\ ts' = [ts EXCEPT ![t].pc = "raised", ![t].exc = outData.exc]
                 /\ UNCHANGED tsh
            ELSE Dispatch(t, [c EXCEPT !.ret = "store"],
                          Note(c.security, field, outData.val), FALSE)
       ELSE IF n_elmts > 0
       THEN LET row == RowOf(self.output, c.security) IN
            IF row.exc # ""
            THEN /\ ts' = [ts EXCEPT ![t].pc = "raised", ![t].exc = row.exc]
                 /\ UNCHANGED tsh
            ELSE Dispatch(t, [c EXCEPT !.ret = "next"],
                          Note(c.security, "ALL", row.val), FALSE)
       ELSE /\ ts' = [ts EXCEPT ![t].pc = "loop", ![t].i = c.i + 1]
            /\ UNCHANGED tsh
    /\ UNCHANGED <<sessVars, calls, useVars, blp2Vars, self, registry>>

\* lines 297-298: the next observer of the list is updated, or its update
\* raises
Update(t) ==
    /\ t \in live
    /\ ts[t].pc = "disp"
    /\ ts[t].k < Len(self.observers)
    /\ \/ /\ ts' = [ts EXCEPT ![t].k = @ + 1]
          /\ tsh' = [tsh EXCEPT ![t].called = Append(@, self.observers[ts[t].k + 1])]
       \/ /\ ts' = [ts EXCEPT ![t].pc = "raised", ![t].exc = "update"]
          /\ UNCHANGED tsh
    /\ UNCHANGED <<sessVars, calls, useVars, blp2Vars, self, registry>>

\* updateObservers returns to where it was called: line 260, line 262 or
\* 277, line 273 (followed by line 274)
Updated(t) ==
    /\ t \in live
    /\ ts[t].pc = "disp"
    /\ ts[t].k >= Len(self.observers)
    /\ LET c == ts[t] IN
       CASE c.ret = "hfield" ->
              /\ ts' = [ts EXCEPT ![t].pc = "hfield"]
              /\ UNCHANGED self
         [] c.ret = "store" ->
              /\ ts' = [ts EXCEPT ![t].pc = "rfield", ![t].j = c.j + 1]
              /\ self' = [self EXCEPT !.output = SetCell(@, c.security, c.note.field, c.note.data)]
         [] c.ret = "return" ->
              /\ ts' = [ts EXCEPT ![t].pc = "done"]
              /\ UNCHANGED self
         [] OTHER ->
              /\ ts' = [ts EXCEPT ![t].pc = "loop", ![t].i = c.i + 1]
              /\ UNCHANGED self
    /\ tsh' = [tsh EXCEPT ![t].finished = @ + 1]
    /\ UNCHANGED <<sessVars, calls, useVars, blp2Vars, registry>>

Remove(seq, x) == SelectSeq(seq, LAMBDA y : y # x)
\* list.remove: the first occurrence goes
RemoveFirst(seq, x) ==
    LET n == Position(seq, x) IN
    IF n = 0 THEN seq ELSE SubSeq(seq, 1, n - 1) \o SubSeq(seq, n + 1, Len(seq))

\* register that puts the observer first
RegisterFirst(observers, o) ==
    IF Position(observers, o) = 0 THEN <<o>> \o observers ELSE observers

\* register without the test of line 285
RegisterAlways(observers, o) == Append(observers, o)

\* lines 284-286
RegisterIn(observers, o) ==
    IF Position(observers, o) = 0 THEN Append(observers, o) ELSE observers

\* lines 288-290
UnregisterIn(observers, o) ==
    IF Position(observers, o) # 0 THEN RemoveFirst(observers, o) ELSE observers

Register(t) ==
    /\ Callable(t)
    /\ \E o \in Observers :
        /\ Position(self.observers, o) = 0
        /\ self' = [self EXCEPT !.observers = RegisterIn(@, o)]
        /\ registry' = Append(Remove(registry, o), o)
    /\ UNCHANGED <<sessVars, calls, useVars, blp2Vars, ts, tsh>>

Unregister(t) ==
    /\ Callable(t)
    /\ \E o \in Observers :
        /\ Position(self.observers, o) # 0
        /\ self' = [self EXCEPT !.observers = UnregisterIn(@, o)]
        /\ registry' = Remove(registry, o)
    /\ UNCHANGED <<sessVars, calls, useVars, blp2Vars, ts, tsh>>

\* lines 292-294
UnregisterAll(t) ==
    /\ Callable(t)
    /\ self.observers # <<>>
    /\ self' = [self EXCEPT !.observers = <<>>]
    /\ registry' = <<>>
    /\ UNCHANGED <<sessVars, calls, useVars, blp2Vars, ts, tsh>>

NextBLPTS ==
    \/ Partial
    \/ Respond
    \/ Status
    \/ \E t \in Threads :
        \/ Get(t)
        \/ CallFillRequest(t)
        \/ FillKwargs(t)
        \/ FillRest(t)
        \/ SendRequest(t)
        \/ Take(t)
        \/ NextEventRaises(t)
        \/ ForSecurity(t)
        \/ HistField(t)
        \/ RefField(t)
        \/ Update(t)
        \/ Updated(t)
        \/ Register(t)
        \/ Unregister(t)
        \/ UnregisterAll(t)

\* one thread uses the BLPTS
SpecSeq == InitBLPTS({1}, MaxCalls) /\ [][NextBLPTS]_vars
\* the calls of get, over a service that answers each request with its
\* RESPONSE alone
NextConc ==
    \/ Respond
    \/ \E t \in Threads :
        \/ Get(t)
        \/ FillKwargs(t)
        \/ FillRest(t)
        \/ SendRequest(t)
        \/ Take(t)
        \/ NextEventRaises(t)
        \/ ForSecurity(t)
        \/ HistField(t)
        \/ RefField(t)
        \/ Update(t)
        \/ Updated(t)

\* two threads call get on the same BLPTS
SpecConc == InitReady(Threads, MaxCalls) /\ [][NextConc]_vars

\* an object of either class, used by one thread or, a BLP2, by two
Init == InitBLP2 \/ InitBLPTS({1}, MaxCalls)
Next == NextBLP2 \/ NextBLPTS
Spec == Init /\ [][Next]_vars

\* One call per thread, of bdp, bdh or bsrch on a BLP2 or of get on a BLPTS.
\* A thread that can run does; a thread in nextEvent runs when there is an
\* event; the service answers every request with its RESPONSE, after at most
\* MaxExtra PARTIAL_RESPONSE events. Two threads share a BLP2, one thread
\* uses a BLPTS.
InitFair == InitBLP2 \/ InitReady({1}, 1)
NextFair ==
    \/ Partial
    \/ \E t \in Threads : Bdp(t) \/ Bdh(t) \/ Bsrch(t) \/ Blp2Take(t) \/ Blp2Parse(t)
    \/ NextConc
Progress(t) ==
    \/ Blp2Take(t) \/ Blp2Parse(t)
    \/ FillKwargs(t) \/ FillRest(t) \/ SendRequest(t) \/ Take(t) \/ ForSecurity(t)
    \/ HistField(t) \/ RefField(t) \/ Update(t) \/ Updated(t)
FairSpec ==
    /\ InitFair
    /\ [][NextFair]_vars
    /\ WF_vars(Respond)
    /\ \A t \in Threads : WF_vars(Progress(t))

(* ------------------------- BLPTS: the claims -------------------------- *)

HIST == "HistoricalDataRequest"
REF == "ReferenceDataRequest"

\* the data events among the types dequeued
DataEvents(deq) == {n \in 1..Len(deq) : deq[n] \in {RESPONSE, PARTIAL_RESPONSE}}

\* C2: updateObservers calls the observers one after another in the order
\* in which they registered (as far as still registered): while it runs, the
\* observers called so far are the first of that order, and when it has
\* returned they are all of them, in that order.
C2_InRegistrationOrder ==
    \A t \in Threads :
        /\ ts[t].pc = "disp" =>
              /\ tsh[t].expect = registry
              /\ tsh[t].called = SubSeq(registry, 1, ts[t].k)
        /\ (ts[t].pc # "disp" /\ tsh[t].notes # <<>> /\ tsh[t].finished = Len(tsh[t].notes))
              => tsh[t].called = tsh[t].expect

\* a notification went to o2 and then o1, o1 having registered again after o2
C2_Witness ==
    \E t \in Threads :
        /\ ts[t].pc = "loop"
        /\ tsh[t].finished = Len(tsh[t].notes)
        /\ tsh[t].called = <<"o2", "o1">>

\* C4: with two threads in get on one BLPTS, what a call notifies comes from
\* the events of the request the call itself sent, the request it sends is
\* the one it built, and it reads the events in the mode of that request.
C4_OwnResponsesOnly ==
    \A t \in Threads :
        LET h == tsh[t] IN
        /\ \A n \in 1..Len(h.notes) :
              /\ h.notes[n].cid = h.sentCid
              /\ h.notes[n].hist <=> (h.sentReq.type = HIST)
        /\ (h.sends > 0 /\ h.built # NoRequest) => h.sentReq = h.built

\* C6 (state part): no request is sent again, a bdh or bsrch call returns
\* nothing when its parsing raised, and a get that an observer's update
\* raised out of has notified the observers before that one (of the list as
\* it was when the notification began) and no other.
C6_State ==
    \A t \in Threads :
        /\ blp2h[t].sends <= 1
        /\ tsh[t].sends <= 1
        /\ (blp2[t].pc = "done" /\ blp2[t].op \in {"bdh", "bsrch"})
              => Blp2Output(blp2[t]).exc = ""
        /\ (blp2[t].pc = "raised" /\ LeftLoop(blp2[t]))
              => blp2[t].exc = Blp2Output(blp2[t]).exc
        /\ (ts[t].pc = "raised" /\ ts[t].exc = "update") =>
              /\ ts[t].k < Len(tsh[t].expect)
              /\ tsh[t].called = SubSeq(tsh[t].expect, 1, ts[t].k)
              /\ tsh[t].finished = Len(tsh[t].notes) - 1

\* C6 (step part): a call that raised does nothing more (the thread may start
\* another call), and the step that raises leaves what was notified as it is.
C6_Step ==
    \A t \in Threads :
        /\ blp2[t].pc = "raised" => (blp2'[t] = blp2[t] /\ blp2h'[t] = blp2h[t])
        /\ ts[t].pc = "raised" =>
              \/ ts'[t] = ts[t] /\ tsh'[t] = tsh[t]
              \/ calls' = calls + 1 /\ tsh'[t] = NoTsHistory
        /\ (ts[t].pc # "raised" /\ ts'[t].pc = "raised") =>
              /\ tsh'[t].notes = tsh[t].notes
              /\ tsh'[t].called = tsh[t].called
              /\ tsh'[t].finished = tsh[t].finished
              /\ tsh'[t].sends = tsh[t].sends

\* C6: outside the lookup of bdp no exception is caught: the exception of
\* sendRequest, of nextEvent, of the parsing or of an observer's update ends
\* the call where it is raised, with no retry, later observers not notified,
\* and what was notified left as it is.
C6_ExceptionsPropagate == []C6_State /\ [][C6_Step]_vars

\* an update raised out of get after one of two observers was notified
C6_Witness ==
    \E t \in Threads :
        /\ ts[t].pc = "raised"
        /\ ts[t].exc = "update"
        /\ Len(tsh[t].expect) = 2
        /\ Len(tsh[t].called) = 1

\* C8: get hands its results to the observers only: every PARTIAL_RESPONSE
\* and the RESPONSE are processed in the order they are dequeued, the
\* notifications of an event are all delivered before the next event is
\* dequeued, events of other types notify nothing, and get returns on the
\* first RESPONSE, which is the last event it dequeues.
C8_EveryDataEventInOrder ==
    \A t \in Threads :
        LET c == ts[t]
            h == tsh[t] IN
        c.op = "get" =>
            /\ \A n \in 1..Len(h.notes) :
                  /\ h.notes[n].ev \in DataEvents(h.deq)
                  /\ n > 1 => h.notes[n - 1].ev <= h.notes[n].ev
            /\ c.pc \in {"poll", "done"} =>
                  /\ h.procd = Cardinality(DataEvents(h.deq))
                  /\ h.finished = Len(h.notes)
            /\ c.pc \in {"loop", "hfield", "rfield", "disp"} =>
                  /\ h.procd = Cardinality(DataEvents(h.deq)) - 1
                  /\ Last(h.deq) \in {RESPONSE, PARTIAL_RESPONSE}
                  /\ \A n \in 1..Len(h.notes) :
                        h.notes[n].ev < Len(h.deq) => n <= h.finished
            /\ c.pc = "poll" => \A n \in 1..Len(h.deq) : h.deq[n] # RESPONSE
            /\ c.pc = "done" =>
                  /\ h.deq # <<>>
                  /\ Last(h.deq) = RESPONSE
                  /\ \A n \in 1..(Len(h.deq) - 1) : h.deq[n] # RESPONSE

\* a get has returned after notifying for a PARTIAL_RESPONSE and then for the
\* RESPONSE
C8_Witness ==
    \E t \in Threads :
        /\ ts[t].op = "get"
        /\ ts[t].pc = "done"
        /\ tsh[t].deq = <<PARTIAL_RESPONSE, RESPONSE>>
        /\ \E n, m \in 1..Len(tsh[t].notes) : tsh[t].notes[n].ev = 1 /\ tsh[t].notes[m].ev = 2
        /\ self.observers # <<>>

\* C9: fillRequest with startDate among its keywords leaves a
\* HistoricalDataRequest, without it a ReferenceDataRequest; and a get that
\* has sent self.request reads the events as historical exactly if the
\* request it sent is a HistoricalDataRequest.
C9_ModeMatchesRequest ==
    \A t \in Threads :
        LET c == ts[t] IN
        /\ (c.op = "fillRequest" /\ c.pc = "done") =>
              self.request.type = IF "startDate" \in c.args.kwargs THEN HIST ELSE REF
        /\ (c.op = "get" /\ tsh[t].sends > 0 /\ c.pc \notin {"done", "raised"}) =>
              (("startDate" \in self.kwargs) <=> (tsh[t].sentReq.type = HIST))
        /\ (c.op = "get" /\ c.pc = "hfield") => tsh[t].sentReq.type = HIST
        /\ (c.op = "get" /\ c.pc = "rfield") => tsh[t].sentReq.type = REF
        /\ \A n \in 1..Len(tsh[t].notes) :
              tsh[t].notes[n].hist <=> (tsh[t].sentReq.type = HIST)

\* the second call on a BLPTS is a get without arguments, and it reads a
\* historical response as historical
C9_Witness ==
    \E t \in Threads :
        /\ ts[t].op = "get"
        /\ ts[t].args = NoArgs
        /\ ts[t].pc = "hfield"
        /\ calls = 2

\* the (security, field) of the notifications of the event dequeued as number ev
NotesOf(h, ev) ==
    LET at == SelectSeq(h.notes, LAMBDA x : x.ev = ev) IN
    [n \in 1..Len(at) |-> <<at[n].note.security, at[n].note.field>>]

\* what C10 says the first n securities of a reference event notify
RECURSIVE ExpectedNotes(_, _)
ExpectedNotes(sd, n) ==
    IF n = 0 THEN <<>>
    ELSE ExpectedNotes(sd, n - 1) \o
         [j \in 1..Len(sd[n].fd) |-> <<sd[n].security, sd[n].fd[j][1]>>] \o
         (IF Len(sd[n].fd) > 0 THEN << <<sd[n].security, "ALL">> >> ELSE <<>>)

\* C10: for a ReferenceDataRequest, every security of a processed event is
\* notified once per field of its field data and then once with 'ALL', a
\* security without field data not at all: so when get is through with a
\* security (or gave up on it for anything but the service or an observer)
\* the notifications of the event are those of its securities so far.
C10_RefNotifications ==
    \A t \in Threads :
        LET c == ts[t]
            h == tsh[t]
            through == CASE c.pc \in {"poll", "done"} -> c.responseSize
                         [] c.pc = "loop" -> c.i
                         [] c.pc = "raised" -> c.i + 1
                         [] OTHER -> 0 IN
        (/\ c.op = "get"
         /\ h.sentReq.type = REF
         /\ "startDate" \notin self.kwargs
         /\ IsData(c.event)
         /\ c.event.body.kind = "ref"
         /\ c.pc \in {"poll", "done", "loop"} \/ (c.pc = "raised" /\ c.exc \notin {"nextEvent", "update"}))
        => NotesOf(h, Len(h.deq)) = ExpectedNotes(c.event.body.sd, through)

(* ------------------- the polling loops: termination ------------------- *)

\* C7 (state part): a call sends its request once, and it is past its
\* polling loop only with a RESPONSE dequeued.
C7_State ==
    \A t \in Threads :
        /\ blp2h[t].sends <= 1
        /\ tsh[t].sends <= 1
        /\ blp2[t].pc \in {"poll", "parse", "done"} => blp2h[t].sends = 1
        /\ LeftLoop(blp2[t]) => Last(blp2h[t].deq) = RESPONSE
        /\ (ts[t].op = "get" /\ ts[t].pc \in {"poll", "loop", "hfield", "rfield", "disp", "done"})
              => tsh[t].sends = 1
        /\ (ts[t].op = "get" /\ ts[t].pc = "done") => Last(tsh[t].deq) = RESPONSE

\* C7 (step part): nothing but a dequeued RESPONSE, or the exception of
\* nextEvent, takes a call out of its polling loop: there is no timeout.
C7_Step ==
    \A t \in Threads :
        /\ blp2[t].pc = "poll" =>
              \/ blp2'[t].pc = "poll"
              \/ blp2'[t].pc = "raised" /\ blp2'[t].exc = "nextEvent"
              \/ queue # <<>> /\ Head(queue).type = RESPONSE /\ queue' = Tail(queue)
        /\ ts[t].pc = "poll" =>
              \/ ts'[t].pc = "poll"
              \/ ts'[t].pc = "raised" /\ ts'[t].exc = "nextEvent"
              \/ queue # <<>> /\ Head(queue).type \in {RESPONSE, PARTIAL_RESPONSE}
                              /\ queue' = Tail(queue)

\* C7: bdp, bdh, bsrch and get have no timeout and no retry: the request is
\* sent once, the loop is left only on a RESPONSE, and if every sent request
\* gets its RESPONSE and the threads keep polling, every call in its loop
\* comes to its end (it returns, or an exception leaves it).
C7_TerminatesOnResponse ==
    /\ []C7_State
    /\ [][C7_Step]_vars
    /\ \A t \in Threads : (blp2[t].pc = "poll") ~> (blp2[t].pc \in {"done", "raised"})
    /\ \A t \in Threads : (ts[t].pc = "poll") ~> (ts[t].pc \in {"done", "raised"})

\* both threads' calls have returned, one of them after waiting through a
\* PARTIAL_RESPONSE
C7_Witness ==
    /\ \A t \in Threads : blp2[t].pc = "done" /\ blp2h[t].sends = 1
    /\ \E t \in Threads : blp2h[t].deq = <<PARTIAL_RESPONSE, RESPONSE>>

(* -------------------- BLP2: bdh and bdhOHLC alone --------------------- *)

\* the ways bdh is called by one caller: a field name or a list of them, in
\* either order, for a table or for the last row
BdhShapes ==
    { [strData |-> PyStr("f1"), singleFrame |-> FALSE],
      [strData |-> PyStr("f1"), singleFrame |-> TRUE],
      [strData |-> PyList(<<"f1", "f2">>), singleFrame |-> TRUE],
      [strData |-> PyList(<<"f2", "f1">>), singleFrame |-> FALSE] }

BdhShaped(t) == \E a \in BdhShapes : BdhCall(t, a)

OHLC == <<"PX_OPEN", "PX_HIGH", "PX_LOW", "PX_LAST">>
Periodicities == {"DAILY", "WEEKLY"}

\* lines 134-135: bdh is called with periodicity as its fifth positional
\* argument, which is adjustmentSplit; periodicity and singleFrame keep the
\* defaults of bdh
BdhOHLC(t) ==
    \E periodicity \in Periodicities :
        Blp2Send(t, "bdhOHLC", PyList(OHLC), FALSE, periodicity,
                 BdhRequest("s1", PyList(OHLC), "20140101", "20140109",
                            PyStr(periodicity), "DAILY"))

\* one caller on a BLP2
InitOne ==
    /\ queue = <<>>
    /\ pending = {}
    /\ nextCid = 1
    /\ extras = 0
    /\ calls = 0
    /\ client = "BLP2"
    /\ live = {1}
    /\ limit = 1
    /\ services = [refDataSvc |-> "//BLP/refdata", refExrSvc |-> "//BLP/exrsvc"]
    /\ blp2 = [t \in Threads |-> IdleCall]
    /\ blp2h = [t \in Threads |-> NoHistory]
    /\ self = NewSelf({})
    /\ ts = [t \in Threads |-> IdleGet]
    /\ tsh = [t \in Threads |-> NoTsHistory]
    /\ registry = <<>>

NextHist ==
    \/ Partial
    \/ Respond
    \/ Status
    \/ \E t \in Threads :
        \/ BdhShaped(t)
        \/ BdhOHLC(t)
        \/ Blp2Take(t)
        \/ Blp2NextEventRaises(t)
        \/ Blp2Parse(t)

SpecHist == InitOne /\ [][NextHist]_vars

\* C11: a bdh call that returns gives a table with one row per dated entry
\* of the RESPONSE, with the dates in the order of the response, and one
\* column per requested field in the order of the request (a field name
\* given as a string is one field), each cell the field's value of that
\* entry; with singleFrame it gives the values of the last entry, and it
\* raises when the response has no entry.
C11_BdhTableShape ==
    \A t \in Threads :
        LET c == blp2[t]
            b == c.event.body
            cols == AsList(c.strData)
            n == Len(b.rows) IN
        c.op \in {"bdh", "bdhOHLC"} =>
            /\ (c.pc = "done" /\ ~c.singleFrame) =>
                  /\ c.output.tag = "table"
                  /\ c.output.index = [i \in 1..n |-> b.rows[i].date]
                  /\ c.output.cols = cols
                  /\ (c.strData.t = "str" => c.output.cols = <<c.strData.s>>)
                  /\ c.output.cells =
                        [i \in 1..n |-> [k \in 1..Len(cols) |->
                                             GetElement(b.rows[i].vals, cols[k])]]
            /\ (c.pc = "done" /\ c.singleFrame) =>
                  /\ n > 0
                  /\ c.output.tag = "list"
                  /\ c.output.cells =
                        [k \in 1..Len(cols) |-> GetElement(b.rows[n].vals, cols[k])]
            /\ (c.pc \in {"done", "raised"} /\ LeftLoop(c) /\ c.singleFrame /\ n = 0) =>
                  c.pc = "raised"

\* bdh has returned a table of two rows and of the two fields in the order
\* they were asked for, which is not the order of the response
C11_Witness ==
    \E t \in Threads :
        /\ blp2[t].op = "bdh"
        /\ blp2[t].pc = "done"
        /\ blp2[t].output.cols = <<"f2", "f1">>
        /\ blp2[t].output.index = <<"d1", "d2">>
        /\ blp2[t].output.cells = << <<"2.5", "1.5">>, <<"4.5", "3.5">> >>

\* C13: the request bdhOHLC sends is the request of bdh for the four fields
\* with periodicitySelection the periodicity it was called with and
\* adjustmentSplit FALSE.
C13_OHLCRequest ==
    \A t \in Threads :
        (blp2[t].op = "bdhOHLC" /\ blp2h[t].sends = 1) =>
            blp2h[t].request =
                BdhRequest("s1", PyList(OHLC), "20140101", "20140109",
                           PyBool(FALSE), blp2[t].periodicity)

(* ---------------------- BLPTS: one get after another ------------------ *)

\* C12: with one thread, what a get processes and notifies comes from events
\* of the request this get sent: an earlier get, also one that an exception
\* ended, leaves no event behind for it.
C12_NoStaleEvents ==
    \A t \in Threads :
        (ts[t].op = "get" /\ tsh[t].sends > 0) =>
            /\ \A n \in 1..Len(tsh[t].notes) : tsh[t].notes[n].cid = tsh[t].sentCid
            /\ (ts[t].pc \in {"loop", "hfield", "rfield", "disp"})
                  => ts[t].event.cid = tsh[t].sentCid
            /\ (ts[t].pc = "done") => ts[t].event.cid = tsh[t].sentCid

(* ------------------ BLPTS: the observer list on its own ---------------- *)

\* calls on the observer list in a run
MaxOps == 4

\* the user may call, or the update of an observer that updateObservers has
\* called may
CanCallList(t) ==
    /\ client = "BLPTS"
    /\ t \in live
    /\ calls < limit
    /\ \/ ts[t].pc \in {"idle", "done", "raised"}
       \/ ts[t].pc = "disp" /\ ts[t].k >= 1

\* lines 284-286, with any observer, registered or not
CallRegister(t) ==
    /\ CanCallList(t)
    /\ calls' = calls + 1
    /\ \E o \in Observers :
        /\ self' = [self EXCEPT !.observers = RegisterIn(@, o)]
        /\ registry' = IF Position(registry, o) = 0 THEN Append(registry, o) ELSE registry
        /\ tsh' = [tsh EXCEPT ![t].listCall = ListCall("register", o)]
    /\ UNCHANGED <<sessVars, useVars, blp2Vars, ts>>

\* lines 288-290, with any observer, registered or not
CallUnregister(t) ==
    /\ CanCallList(t)
    /\ calls' = calls + 1
    /\ \E o \in Observers :
        /\ self' = [self EXCEPT !.observers = UnregisterIn(@, o)]
        /\ registry' = Remove(registry, o)
        /\ tsh' = [tsh EXCEPT ![t].listCall = ListCall("unregister", o)]
    /\ UNCHANGED <<sessVars, useVars, blp2Vars, ts>>

\* lines 292-294, with the list empty or not
CallUnregisterAll(t) ==
    /\ CanCallList(t)
    /\ calls' = calls + 1
    /\ self' = [self EXCEPT !.observers = <<>>]
    /\ registry' = <<>>
    /\ tsh' = [tsh EXCEPT ![t].listCall = ListCall("unregisterAll", "")]
    /\ UNCHANGED <<sessVars, useVars, blp2Vars, ts>>

\* line 296: updateObservers is called with one notification
CallUpdateObservers(t) ==
    /\ Callable(t)
    /\ calls' = calls + 1
    /\ LET c == [IdleGet EXCEPT !.op = "updateObservers", !.ret = "return"]
           note == Note("s1", "f1", NoValue) IN
       /\ ts' = [ts EXCEPT ![t] = [c EXCEPT !.pc = "disp", !.note = note, !.k = 0]]
       /\ tsh' = [tsh EXCEPT ![t] =
               [NoTsHistory EXCEPT !.notes = <<[note |-> note, cid |-> 0,
                                                hist |-> FALSE, ev |-> 0]>>,
                                   !.expect = self.observers,
                                   !.listCall = ListCall("updateObservers", "")]]
    /\ UNCHANGED <<sessVars, useVars, blp2Vars, self, registry>>

InitObs ==
    /\ queue = <<>>
    /\ pending = {}
    /\ nextCid = 1
    /\ extras = 0
    /\ calls = 0
    /\ client = "BLPTS"
    /\ live = {1}
    /\ limit = MaxOps
    /\ services = [refDataSvc |-> "//BLP/refdata", refExrSvc |-> ""]
    /\ blp2 = [t \in Threads |-> IdleCall]
    /\ blp2h = [t \in Threads |-> NoHistory]
    /\ self = Constructor(RefArgs).self
    /\ ts = [t \in Threads |-> IdleGet]
    /\ tsh = [t \in Threads |-> NoTsHistory]
    /\ registry = <<>>

NextObs ==
    \E t \in Threads :
        \/ CallRegister(t)
        \/ CallUnregister(t)
        \/ CallUnregisterAll(t)
        \/ CallUpdateObservers(t)
        \/ Update(t)
        \/ Updated(t)

SpecObs == InitObs /\ [][NextObs]_vars

\* the observers of a sequence
Members(seq) == {seq[n] : n \in 1..Len(seq)}
\* how often x is in a sequence
Count(seq, x) == Cardinality({n \in 1..Len(seq) : seq[n] = x})

\* C14 (state part): no observer is in the list twice.
C14_State == \A o \in Observers : Count(self.observers, o) <= 1

\* C14 (step part): register of a registered observer and unregister of one
\* that is not registered change nothing, register of another appends it,
\* unregister takes out that observer and keeps the others in their order,
\* unregisterAll empties the list.
C14_Step ==
    \A t \in Threads :
        LET lc == tsh'[t].listCall
            old == self.observers
            new == self'.observers IN
        (calls' = calls + 1 /\ t \in live) =>
            CASE lc.op = "register" ->
                   IF lc.observer \in Members(old) THEN new = old
                   ELSE new = Append(old, lc.observer)
              [] lc.op = "unregister" ->
                   IF lc.observer \notin Members(old) THEN new = old
                   ELSE new = SelectSeq(old, LAMBDA y : y # lc.observer)
              [] lc.op = "unregisterAll" -> new = <<>>
              [] OTHER -> new = old

\* C14: after any calls of register, unregister and unregisterAll the list
\* holds no observer twice, and each call changes the list as its name says
\* and no more.
C14_NoDuplicates == []C14_State /\ [][C14_Step]_vars

\* o1 was registered again with o2 registered after it, and has kept its place
C14_Witness ==
    \E t \in Threads :
        /\ tsh[t].listCall = ListCall("register", "o1")
        /\ self.observers = <<"o1", "o2">>
        /\ ts[t].pc = "idle"
        /\ calls = 3

\* C15: when updateObservers has returned, every observer that was
\* registered when it was called has been updated with the notification
\* once, whatever the updates did to the list in between.
C15_OncePerObserver ==
    \A t \in Threads :
        (ts[t].op = "updateObservers" /\ ts[t].pc = "done") =>
            \A o \in Members(tsh[t].expect) : Count(tsh[t].called, o) = 1

====
